---- MODULE Spec2Model ----
(***************************************************************************)
(* Model of main_coronaSEIR.py: the module-level SEIR pipeline.            *)
(*                                                                         *)
(* Numbers.  The script computes in floating point.  Here every quantity   *)
(* is an integer on a grid: head counts (S, E, I, R, F, U, FC) are whole   *)
(* units, durations given with one decimal (days_presymptomatic = 2.5,     *)
(* days_to_incubation = 5.2, generation_time = 4.6) are in tenths of a     *)
(* day, the fatality rates are in percent, and the rates sigma, gamma,     *)
(* beta0, beta1 are exact fractions [num, den].  A product with a rate is  *)
(* rounded down to the grid (Div).  The one place where the script itself  *)
(* leaves floating point, the store into the integer array D, is modelled  *)
(* exactly: the value stored is the float truncated toward zero (Trunc).   *)
(*                                                                         *)
(* scipy.integrate.odeint is a library; it is modelled as one explicit     *)
(* Euler step per day of the grid X, each step one call of model.          *)
(***************************************************************************)
EXTENDS Integers, Sequences, FiniteSets, TLC

VARIABLES
    pc,                      \* position in the module-level script
    \* --- configuration: the literals of lines 13-34, 47, 53 ---
    daysTotal, florida_population, E0, intensive_units,
    date_of_first_infection, date_of_lockdown,
    days_to_incubation, generation_time,
    \* --- module-level names ---
    population, dataOffset, days_before_lockdown,
    sigma, gamma, beta0, beta1,
    X, S, E, I, R,           \* the time axis and the trajectory
    beta, dY,                \* inside model: the rate used and the derivatives returned
    F, U, FC, D,             \* the derived series
    RPrev, DPrev, IFR, i,    \* the Deaths loop
    y_data_var,              \* inside solve: the rows odeint has produced
    XCDR_data,               \* the observed series
    out,                     \* what the text output printed
    done,                    \* history: the script lines that have completed
    fetched                  \* history: what get_population returned

config == <<daysTotal, florida_population, E0, intensive_units,
            date_of_first_infection, date_of_lockdown,
            days_to_incubation, generation_time>>
params == <<days_before_lockdown, sigma, gamma, beta0, beta1>>
trajectory == <<S, E, I, R>>
inModel == <<beta, dY>>
derived == <<F, U, FC, D>>
loop == <<RPrev, DPrev, IFR, i>>
vars == <<pc, config, population, dataOffset, params, X, trajectory, inModel,
          derived, loop, y_data_var, XCDR_data, out, done, fetched>>

----------------------------------------------------------------------------
(* Bounds of the model *)

MaxDays == 23                \* the longest simulated horizon explored

(* The values the configuration literals are drawn from.  Each set holds   *)
(* the value that makes the default run's case happen at this horizon and  *)
(* the values the claims about invalid configurations are about.           *)
DaysTotalChoices == {2, MaxDays}
PopulationChoices == {-1000, 10000}
E0Choices == {1, 3000}
IntensiveUnitsChoices == {0, 5604}
LockdownChoices == {-1, 5, 60}         \* date_of_lockdown, days after date_of_first_infection
IncubationChoices == {25, 52}          \* tenths of a day
GenerationChoices == {20, 27, 46}      \* tenths of a day
\* dataOffset is 'auto' or a number of whole days
Auto == [auto |-> TRUE, days |-> 0]
Fixed(k) == [auto |-> FALSE, days |-> k]
DataOffsetChoices == {Auto, Fixed(1)}
GetPopulationResults == {500, 10000}   \* what population.get_population may return
ObservedDeaths == {<<0, 0, 1>>, <<0, 2, 5, 9>>}

----------------------------------------------------------------------------
(* Literals of the script that the model keeps fixed *)

COUNTRY == "Germany"
PROVINCE == "all"
r0 == 3
r1 == 1
days_presymptomatic == 25              \* 2.5 days, in tenths
percent_asymptomatic == 35             \* 0.35, in percent
timeInHospital == 12
communicationLag == 2
testLag == 3
symptomToHospitalLag == 5
hospitalToIcuLag == 5
infectionFatalityRateA == 1            \* 0.01, in percent
infectionFatalityRateB == infectionFatalityRateA * 3
icuRate == infectionFatalityRateA * 2  \* in percent

----------------------------------------------------------------------------
(* Arithmetic on the grid *)

\* a / b rounded down, for either sign of b (b # 0)
Div(a, b) == IF b > 0 THEN a \div b ELSE (-a) \div (-b)

\* the float a / b stored into an integer array: numpy truncates toward zero
Trunc(a, b) == IF a >= 0 THEN a \div b ELSE -((-a) \div b)

\* Python's round() of t tenths to whole days: ties go to the even integer
Round(t) ==
    LET lo == t \div 10
        fr == t % 10
    IN  IF fr < 5 THEN lo
        ELSE IF fr > 5 THEN lo + 1
        ELSE IF lo % 2 = 0 THEN lo ELSE lo + 1

----------------------------------------------------------------------------
(* model(Y, x, N, beta0, days0, beta1, gamma, sigma), lines 85-100 *)

\* variant of line 94: the switch day itself still gets beta0
TransmissionRate_inclusive(x, b0, days0, b1) == IF x <= days0 THEN b0 ELSE b1

\* line 94
TransmissionRate(x, b0, days0, b1) == IF x < days0 THEN b0 ELSE b1

\* variant of lines 96-99: dE without the outflow sigma * E
model_leak(Y, x, N, b0, days0, b1, g, s) ==
    LET b == IF x < days0 THEN b0 ELSE b1
        infection == Div(b.num * Y[1] * Y[3], b.den * N)
        incubation == Div(s.num * Y[2], s.den)
        recovery == Div(g.num * Y[3], g.den)
    IN  << -infection, infection, incubation - recovery, recovery >>

model(Y, x, N, b0, days0, b1, g, s) ==
    LET b == TransmissionRate(x, b0, days0, b1)
        infection == Div(b.num * Y[1] * Y[3], b.den * N)   \* beta * S * I / N
        incubation == Div(s.num * Y[2], s.den)             \* sigma * E
        recovery == Div(g.num * Y[3], g.den)               \* gamma * I
    IN  << -infection, infection - incubation, incubation - recovery, recovery >>

----------------------------------------------------------------------------
(* shared.delay(npArray, days): the series shifted later by d tenths of a  *)
(* day, linearly interpolated between neighbouring days, zero outside.     *)

delay(V, d) ==
    LET n == Len(V)
        At(k) == IF k >= 0 /\ k <= n - 1 THEN V[k + 1] ELSE 0
    IN  [j \in 1..n |->
            LET p == (j - 1) * 10 - d
                lo == p \div 10
                fr == p % 10
            IN  Div(At(lo) * (10 - fr) + At(lo + 1) * fr, 10)]

\* np.cumsum
RECURSIVE cumsum(_)
cumsum(V) ==
    IF V = <<>> THEN <<>>
    ELSE LET front == cumsum(SubSeq(V, 1, Len(V) - 1))
         IN  Append(front, (IF front = <<>> THEN 0 ELSE front[Len(front)]) + V[Len(V)])

\* arr[k] with Python's indexing: a negative k counts from the end
InRange(arr, k) == k >= -Len(arr) /\ k <= Len(arr) - 1
Item(arr, k) == IF k >= 0 THEN arr[k + 1] ELSE arr[Len(arr) + k + 1]

----------------------------------------------------------------------------
(* Derived parameters and series *)

\* line 64, in tenths of a day
timeInfected == Div(10 * gamma.den, gamma.num)

\* line 61, as a fraction
percent_cases_detected == [num |-> 100 - percent_asymptomatic, den |-> 100 * 20]

\* line 118
DetectedCases(Iseq) ==
    [j \in 1..Len(Iseq) |-> Div(Iseq[j] * percent_cases_detected.num, percent_cases_detected.den)]

\* line 119
ICULoadRaw(Iseq) ==
    [j \in 1..Len(Iseq) |-> Div(Iseq[j] * icuRate * timeInHospital * 10, 100 * timeInfected)]

\* the delay amounts of lines 124, 125, 126-127 and 143, in tenths of a day
FoundLag == days_presymptomatic + (symptomToHospitalLag + testLag + communicationLag) * 10
IcuLag == days_presymptomatic + (symptomToHospitalLag + hospitalToIcuLag) * 10
IcuStayLag == Round(timeInHospital * 10 - timeInfected) * 10
DeathsLag == - timeInfected + days_presymptomatic
             + (symptomToHospitalLag + timeInHospital + communicationLag) * 10

\* variant of line 137: a load equal to the capacity already gets the higher rate
FatalityRate_strict(u, capacity) ==
    IF u < capacity THEN infectionFatalityRateA ELSE infectionFatalityRateB

\* line 137
FatalityRate(u, capacity) ==
    IF u <= capacity THEN infectionFatalityRateA ELSE infectionFatalityRateB

\* variant of line 138: the previous day's total is not carried forward
DeathsValue_nocarry(dprev, ifr, r, rprev) == Trunc(ifr * (r - rprev), 100)

\* line 138: the value stored into the integer array D
DeathsValue(dprev, ifr, r, rprev) == Trunc(dprev * 100 + ifr * (r - rprev), 100)

----------------------------------------------------------------------------
(* The order of the module-level statements *)

\* variant: the Deaths loop placed before the two delays of U
Stages_deaths_first ==
    << "L17", "L22", "L50", "L57", "L77", "L104", "L107", "L109", "L118",
       "L123", "L133", "L136", "L125", "L126", "L130", "L142", "L157",
       "L159", "L167", "L210", "L211", "L214", "done" >>

Stages == << "L17", "L22", "L50", "L57", "L77", "L104", "L107", "L109", "L118",
             "L123", "L125", "L126", "L130", "L133", "L136", "L142", "L157",
             "L159", "L167", "L210", "L211", "L214", "done" >>

After(l) == Stages[(CHOOSE k \in 1..Len(Stages) : Stages[k] = l) + 1]

NoRate == [num |-> 0, den |-> 1]

Init ==
    /\ pc = Stages[1]
    /\ daysTotal \in DaysTotalChoices
    /\ florida_population \in PopulationChoices
    /\ E0 \in E0Choices
    \* a negative population is explored with the script's own E0 only: with
    \* the larger one its trajectory leaves the range of the model's integers
    /\ florida_population < 0 => E0 = 1
    /\ intensive_units \in IntensiveUnitsChoices
    /\ date_of_first_infection = 0
    /\ date_of_lockdown \in LockdownChoices
    /\ days_to_incubation \in IncubationChoices
    /\ generation_time \in GenerationChoices
    /\ dataOffset \in DataOffsetChoices
    /\ population = 0
    /\ days_before_lockdown = 0
    /\ sigma = NoRate /\ gamma = NoRate /\ beta0 = NoRate /\ beta1 = NoRate
    /\ X = <<>> /\ S = <<>> /\ E = <<>> /\ I = <<>> /\ R = <<>>
    /\ beta = NoRate /\ dY = <<0, 0, 0, 0>>
    /\ F = <<>> /\ U = <<>> /\ FC = <<>> /\ D = <<>>
    /\ RPrev = 0 /\ DPrev = 0 /\ IFR = 0 /\ i = 0
    /\ y_data_var = <<>>
    /\ XCDR_data = [country |-> "", province |-> "", date0 |-> 0, deaths |-> <<>>]
    /\ out = <<>>
    /\ done = {}
    /\ fetched = 0

\* a statement at line l completes and control moves to the next one
Step(l) == pc = l /\ pc' = After(l) /\ done' = done \cup {l}
\* a statement at line l raises
Raise(l, err) == pc = l /\ pc' = err /\ done' = done

\* line 17
GetPopulation ==
    /\ Step("L17")
    /\ \E p \in GetPopulationResults : population' = p /\ fetched' = p
    /\ UNCHANGED <<config, dataOffset, params, X, trajectory, inModel, derived,
                   loop, y_data_var, XCDR_data, out>>

\* variant of lines 22-40 without line 31: the looked-up population stays
SetParameters_keep ==
    /\ Step("L22")
    /\ population' = population
    /\ days_before_lockdown' = date_of_lockdown - date_of_first_infection
    /\ UNCHANGED <<fetched, config, dataOffset, sigma, gamma, beta0, beta1, X, trajectory,
                   inModel, derived, loop, y_data_var, XCDR_data, out>>

\* lines 22-40
SetParameters ==
    /\ Step("L22")
    /\ population' = florida_population
    /\ days_before_lockdown' = date_of_lockdown - date_of_first_infection
    /\ UNCHANGED <<fetched, config, dataOffset, sigma, gamma, beta0, beta1, X, trajectory,
                   inModel, derived, loop, y_data_var, XCDR_data, out>>

\* line 50
ComputeSigma ==
    /\ pc = "L50"
    /\ LET den == days_to_incubation - days_presymptomatic
       IN  IF den = 0
           THEN Raise("L50", "ZeroDivisionError") /\ sigma' = sigma
           ELSE Step("L50") /\ sigma' = [num |-> 10, den |-> den]
    /\ UNCHANGED <<fetched, config, population, dataOffset, days_before_lockdown, gamma,
                   beta0, beta1, X, trajectory, inModel, derived, loop,
                   y_data_var, XCDR_data, out>>

\* line 57: 1 / (2 * (generation_time - 1 / sigma))
ComputeGamma ==
    /\ pc = "L57"
    /\ LET den == 2 * (generation_time - Div(10 * sigma.den, sigma.num))
       IN  IF den = 0
           THEN Raise("L57", "ZeroDivisionError") /\ gamma' = gamma
           ELSE Step("L57") /\ gamma' = [num |-> 10, den |-> den]
    /\ UNCHANGED <<fetched, config, population, dataOffset, days_before_lockdown, sigma,
                   beta0, beta1, X, trajectory, inModel, derived, loop,
                   y_data_var, XCDR_data, out>>

\* (sigma + gamma)^2 + 4 sigma gamma (r0 - 1), the argument of math.sqrt in
\* line 80, multiplied by the positive (sigma.den * gamma.den)^2
Discriminant ==
    (sigma.num * gamma.den + gamma.num * sigma.den)
        * (sigma.num * gamma.den + gamma.num * sigma.den)
    + 4 * sigma.num * gamma.num * sigma.den * gamma.den * (r0 - 1)

\* lines 77-82: beta0, beta1, and s1 whose square root needs a non-negative argument
ComputeBeta ==
    /\ pc = "L77"
    /\ IF Discriminant < 0
       THEN Raise("L77", "ValueError") /\ UNCHANGED <<beta0, beta1>>
       ELSE /\ Step("L77")
            /\ beta0' = [num |-> r0 * gamma.num, den |-> gamma.den]
            /\ beta1' = [num |-> r1 * gamma.num, den |-> gamma.den]
    /\ UNCHANGED <<fetched, config, population, dataOffset, days_before_lockdown, sigma,
                   gamma, X, trajectory, inModel, derived, loop, y_data_var,
                   XCDR_data, out>>

\* lines 104-105: the time axis and the initial state
SolveBegin ==
    /\ Step("L104")
    /\ X' = [j \in 1..daysTotal |-> j - 1]
    /\ y_data_var' = << <<population - E0, E0, 0, 0>> >>
    /\ UNCHANGED <<fetched, config, population, dataOffset, params, trajectory, inModel,
                   derived, loop, XCDR_data, out>>

\* line 107: odeint advances one day of the grid by one call of model
Integrate ==
    /\ pc = "L107"
    /\ IF Len(y_data_var) < daysTotal
       THEN LET n == Len(y_data_var)
                Y == y_data_var[n]
                x == X[n]
                d == model(Y, x, population, beta0, days_before_lockdown, beta1, gamma, sigma)
            IN  /\ beta' = TransmissionRate(x, beta0, days_before_lockdown, beta1)
                /\ dY' = d
                /\ y_data_var' = Append(y_data_var, [k \in 1..4 |-> Y[k] + d[k]])
                /\ UNCHANGED <<pc, done>>
       ELSE /\ pc' = After("L107") /\ done' = done \cup {"L107"}
            /\ UNCHANGED <<beta, dY, y_data_var>>
    /\ UNCHANGED <<fetched, config, population, dataOffset, params, X, trajectory, derived,
                   loop, XCDR_data, out>>

\* lines 109-113: transpose, unpack, return and bind X, S, E, I, R
SolveReturn ==
    /\ Step("L109")
    /\ S' = [j \in 1..Len(y_data_var) |-> y_data_var[j][1]]
    /\ E' = [j \in 1..Len(y_data_var) |-> y_data_var[j][2]]
    /\ I' = [j \in 1..Len(y_data_var) |-> y_data_var[j][3]]
    /\ R' = [j \in 1..Len(y_data_var) |-> y_data_var[j][4]]
    /\ UNCHANGED <<fetched, config, population, dataOffset, params, X, inModel, derived,
                   loop, y_data_var, XCDR_data, out>>

\* variant of lines 118-119: I scaled in place (I *= ...) and F bound to it
DeriveObservables_inplace ==
    /\ Step("L118")
    /\ I' = DetectedCases(I)
    /\ F' = I'
    /\ U' = ICULoadRaw(I)
    /\ UNCHANGED <<fetched, config, population, dataOffset, params, X, S, E, R, inModel,
                   FC, D, loop, y_data_var, XCDR_data, out>>

\* lines 118-119: F and U are new arrays computed from I
DeriveObservables ==
    /\ Step("L118")
    /\ F' = DetectedCases(I)
    /\ U' = ICULoadRaw(I)
    /\ UNCHANGED <<fetched, config, population, dataOffset, params, X, trajectory, inModel,
                   FC, D, loop, y_data_var, XCDR_data, out>>

\* lines 123-124
DelayFound ==
    /\ Step("L123")
    /\ F' = delay(F, FoundLag)
    /\ UNCHANGED <<fetched, config, population, dataOffset, params, X, trajectory, inModel,
                   U, FC, D, loop, y_data_var, XCDR_data, out>>

\* line 125
DelayIcu ==
    /\ Step("L125")
    /\ U' = delay(U, IcuLag)
    /\ UNCHANGED <<fetched, config, population, dataOffset, params, X, trajectory, inModel,
                   F, FC, D, loop, y_data_var, XCDR_data, out>>

\* lines 126-127
DelayIcuStay ==
    /\ Step("L126")
    /\ U' = delay(U, IcuStayLag)
    /\ UNCHANGED <<fetched, config, population, dataOffset, params, X, trajectory, inModel,
                   F, FC, D, loop, y_data_var, XCDR_data, out>>

\* line 130
CumulateFound ==
    /\ Step("L130")
    /\ FC' = cumsum(F)
    /\ UNCHANGED <<fetched, config, population, dataOffset, params, X, trajectory, inModel,
                   F, U, D, loop, y_data_var, XCDR_data, out>>

\* lines 133-135: D starts as the integer array arange(daysTotal)
DeathsBegin ==
    /\ Step("L133")
    /\ D' = [j \in 1..daysTotal |-> j - 1]
    /\ RPrev' = 0
    /\ DPrev' = 0
    /\ i' = 0
    /\ UNCHANGED <<fetched, config, population, dataOffset, params, X, trajectory, inModel,
                   F, U, FC, IFR, y_data_var, XCDR_data, out>>

\* lines 136-140: one iteration of the loop, or its exit
DeathsLoop ==
    /\ pc = "L136"
    /\ IF i < Len(X)
       THEN LET ifr == FatalityRate(U[i + 1], intensive_units)
                d == DeathsValue(DPrev, ifr, R[i + 1], RPrev)
            IN  /\ IFR' = ifr
                /\ D' = [D EXCEPT ![i + 1] = d]
                /\ RPrev' = R[i + 1]
                /\ DPrev' = d
                /\ i' = i + 1
                /\ UNCHANGED <<pc, done>>
       ELSE /\ pc' = After("L136") /\ done' = done \cup {"L136"}
            /\ UNCHANGED <<D, RPrev, DPrev, IFR, i>>
    /\ UNCHANGED <<fetched, config, population, dataOffset, params, X, trajectory, inModel,
                   F, U, FC, y_data_var, XCDR_data, out>>

\* lines 142-143
DelayDeaths ==
    /\ Step("L142")
    /\ D' = delay(D, DeathsLag)
    /\ UNCHANGED <<fetched, config, population, dataOffset, params, X, trajectory, inModel,
                   F, U, FC, loop, y_data_var, XCDR_data, out>>

----------------------------------------------------------------------------
(* shared.get_offset_X and shared.model_to_world_time *)

Abs(a) == IF a >= 0 THEN a ELSE -a

\* the observed days t that model day t + k exists for
Overlap(obs, Dm, k) == {t \in 0..(Len(obs) - 1) : t + k >= 0 /\ t + k <= Len(Dm) - 1}

\* sum of |Dm[t + k] - obs[t]| over the observed days t <= upTo of the overlap
RECURSIVE Discrepancy(_, _, _, _)
Discrepancy(obs, Dm, k, upTo) ==
    IF upTo < 0 THEN 0
    ELSE Discrepancy(obs, Dm, k, upTo - 1)
         + (IF upTo \in Overlap(obs, Dm, k) THEN Abs(Dm[upTo + k + 1] - obs[upTo + 1]) ELSE 0)

\* a fixed offset is used as given; 'auto' searches the shifts within +-Len(Dm)
\* for the least discrepancy, the smallest |k| (then k >= 0) among equals
get_offset_X(data, Dm, offset) ==
    IF ~offset.auto THEN offset
    ELSE LET obs == data.deaths
             cand == {k \in (-Len(Dm))..Len(Dm) : Overlap(obs, Dm, k) # {}}
             cost(k) == Discrepancy(obs, Dm, k, Len(obs) - 1)
             better(a, b) == \/ cost(a) < cost(b)
                             \/ cost(a) = cost(b) /\ Abs(a) < Abs(b)
                             \/ cost(a) = cost(b) /\ Abs(a) = Abs(b) /\ a >= b
         IN  Fixed(CHOOSE k \in cand : \A o \in cand : better(k, o))

\* model days become calendar days counted from the first observed date
model_to_world_time(Xm, data) == [j \in 1..Len(Xm) |-> data.date0 + Xm[j]]

\* lines 157-158
GetCountryData ==
    /\ Step("L157")
    /\ \E obs \in ObservedDeaths :
          XCDR_data' = [country |-> COUNTRY, province |-> PROVINCE, date0 |-> 0, deaths |-> obs]
    /\ UNCHANGED <<fetched, config, population, dataOffset, params, X, trajectory, inModel,
                   derived, loop, y_data_var, out>>

\* lines 159-160
ResolveOffset ==
    /\ Step("L159")
    /\ dataOffset' = get_offset_X(XCDR_data, D, dataOffset)
    /\ UNCHANGED <<fetched, config, population, params, X, trajectory, inModel, derived,
                   loop, y_data_var, XCDR_data, out>>

\* line 167
ShiftTimeAxis ==
    /\ Step("L167")
    /\ X' = model_to_world_time([j \in 1..Len(X) |-> X[j] - dataOffset.days], XCDR_data)
    /\ UNCHANGED <<fetched, config, population, dataOffset, params, trajectory, inModel,
                   derived, loop, y_data_var, XCDR_data, out>>

----------------------------------------------------------------------------
(* Text output, lines 200-214 *)

\* what print_info(k) prints; every series has the length of I
print_info(k) ==
    [day |-> k, Infected |-> Item(I, k), Found |-> Item(F, k), Cases |-> Item(FC, k),
     Hospital |-> Item(U, k), Recovered |-> Item(R, k), Deaths |-> Item(D, k)]

\* line 210
PrintLockdown ==
    /\ pc = "L210"
    /\ IF InRange(I, days_before_lockdown)
       THEN Step("L210") /\ out' = Append(out, print_info(days_before_lockdown))
       ELSE Raise("L210", "IndexError") /\ out' = Append(out, [day |-> days_before_lockdown])
    /\ UNCHANGED <<fetched, config, population, dataOffset, params, X, trajectory, inModel,
                   derived, loop, y_data_var, XCDR_data>>

\* line 211
PrintLastDay ==
    /\ pc = "L211"
    /\ IF InRange(I, daysTotal - 1)
       THEN Step("L211") /\ out' = Append(out, print_info(daysTotal - 1))
       ELSE Raise("L211", "IndexError") /\ out' = Append(out, [day |-> daysTotal - 1])
    /\ UNCHANGED <<fetched, config, population, dataOffset, params, X, trajectory, inModel,
                   derived, loop, y_data_var, XCDR_data>>

\* line 214
PrintLockdownStart ==
    /\ pc = "L214"
    /\ IF InRange(X, days_before_lockdown)
       THEN Step("L214") /\ out' = Append(out, [lockdown |-> Item(X, days_before_lockdown)])
       ELSE Raise("L214", "IndexError") /\ out' = out
    /\ UNCHANGED <<fetched, config, population, dataOffset, params, X, trajectory, inModel,
                   derived, loop, y_data_var, XCDR_data>>

Next ==
    \/ GetPopulation
    \/ SetParameters
    \/ ComputeSigma
    \/ ComputeGamma
    \/ ComputeBeta
    \/ SolveBegin
    \/ Integrate
    \/ SolveReturn
    \/ DeriveObservables
    \/ DelayFound
    \/ DelayIcu
    \/ DelayIcuStay
    \/ CumulateFound
    \/ DeathsBegin
    \/ DeathsLoop
    \/ DelayDeaths
    \/ GetCountryData
    \/ ResolveOffset
    \/ ShiftTimeAxis
    \/ PrintLockdown
    \/ PrintLastDay
    \/ PrintLockdownStart

Spec == Init /\ [][Next]_vars

----------------------------------------------------------------------------
(* Properties *)

Sum4(Y) == Y[1] + Y[2] + Y[3] + Y[4]
NonDecreasing(V) == \A j \in 2..Len(V) : V[j] >= V[j - 1]
\* the value of a series on the day before index j (1-based), 0 before the first
Prev(V, j) == IF j = 1 THEN 0 ELSE V[j - 1]
\* U as it stands after both delays, recomputed from the trajectory
DelayedICULoad == delay(delay(ICULoadRaw(I), IcuLag), IcuStayLag)
InLoop == pc = "L136" /\ i >= 1

\* C1: the value the loop stores for day i is exactly the previous day's value
\* plus IFR times the day's increase of R, nothing of the increment being lost.
C1_ExactAccumulation ==
    InLoop => D[i] * 100 = Prev(D, i) * 100 + IFR * (R[i] - Prev(R, i))

\* C2: the rate applied on day i is infectionFatalityRateA exactly when U after
\* both delays is at most intensive_units on that day, else infectionFatalityRateB.
C2_RateFromDelayedLoad ==
    InLoop =>
        /\ DelayedICULoad[i] <= intensive_units => IFR = infectionFatalityRateA
        /\ DelayedICULoad[i] > intensive_units => IFR = infectionFatalityRateB

\* a day whose undelayed load exceeds the capacity while the delayed load equals it
C2_Witness ==
    /\ InLoop
    /\ ICULoadRaw(I)[i] > intensive_units
    /\ DelayedICULoad[i] = intensive_units
    /\ IFR = infectionFatalityRateA

\* C3: the initial state sums to N, the derivatives model returns sum to zero,
\* and every day of the trajectory sums to N.
C3_PopulationConserved ==
    /\ Sum4(dY) = 0
    /\ \A j \in 1..Len(y_data_var) : Sum4(y_data_var[j]) = population
    /\ \A j \in 1..Len(S) : S[j] + E[j] + I[j] + R[j] = population

\* a full trajectory in which people have moved through all four compartments
C3_Witness ==
    /\ "L109" \in done
    /\ Len(S) = MaxDays
    /\ S[MaxDays] < S[1] /\ E[MaxDays] > 0 /\ I[MaxDays] > 0 /\ R[MaxDays] > 0
    /\ dY[4] > 0

\* C4: the call of model for day x uses beta0 when x is before the switch day
\* and beta1 from the switch day on.
C4_RateSwitchesAtLockdown ==
    pc = "L107" /\ Len(y_data_var) >= 2 =>
        LET x == Len(y_data_var) - 2
        IN  /\ x < days_before_lockdown => beta = beta0
            /\ x >= days_before_lockdown => beta = beta1

\* the call for the switch day itself, with two different rates
C4_Witness ==
    /\ pc = "L107" /\ Len(y_data_var) >= 2
    /\ Len(y_data_var) - 2 = days_before_lockdown
    /\ beta = beta1 /\ beta0 # beta1

\* C5: each stage has completed before the stage that depends on it starts.
C5_StageOrder ==
    /\ pc \in {"L104", "L107"} \/ y_data_var # <<>> => "L77" \in done
    /\ pc = "L118" \/ "L118" \in done => "L109" \in done /\ Len(I) = daysTotal
    /\ pc = "L136" \/ "L136" \in done => {"L118", "L125", "L126"} \subseteq done
    /\ pc = "L142" \/ "L142" \in done => "L136" \in done
    /\ pc = "L159" \/ "L159" \in done => "L142" \in done
    /\ pc = "L167" \/ "L167" \in done => "L159" \in done

\* a run that went through every stage
C5_Witness == pc = "done" /\ "L167" \in done /\ Len(D) = MaxDays /\ i = MaxDays

\* sigma or gamma would not be a finite positive rate, or the population is negative
InvalidConfig ==
    \/ daysTotal <= 0
    \/ florida_population < 0
    \/ days_to_incubation - days_presymptomatic <= 0
    \/ generation_time - (days_to_incubation - days_presymptomatic) <= 0

\* C6: a run with an invalid configuration never gets past the parameter
\* section: it stops there in an error state, ConfigurationError by name (a
\* ZeroDivisionError or ValueError raised there is counted as such a stop), and no
\* integration, observable or output is produced from the parameters.
C6_InvalidConfigRejected ==
    InvalidConfig =>
        /\ pc \in {"L17", "L22", "L50", "L57", "L77",
                   "ConfigurationError", "ZeroDivisionError", "ValueError"}
        /\ y_data_var = <<>> /\ out = <<>>

\* C7: over a non-decreasing R that starts at or above zero, the values the
\* loop has stored never decrease and start at or above zero.
C7_DeathsNonDecreasing ==
    InLoop /\ NonDecreasing(R) /\ R[1] >= 0 =>
        \A j \in 1..i : D[j] >= Prev(D, j)

\* the loop has finished a full horizon, used both rates and Deaths has grown
C7_Witness ==
    /\ InLoop /\ i = MaxDays
    /\ NonDecreasing(R) /\ R[1] >= 0
    /\ IFR = infectionFatalityRateB
    /\ \E j \in 2..i : D[j] > D[j - 1] /\ D[j - 1] > 0

\* C8: once solve has returned, no step changes S, E, I or R.
C8_TrajectoryReadOnly ==
    [][ "L109" \in done => UNCHANGED <<S, E, I, R>> ]_vars

\* every later stage has run over a trajectory that is not trivially zero
C8_Witness ==
    /\ pc = "done"
    /\ Len(I) = MaxDays
    /\ \E j \in 1..Len(I) : I[j] > 0 /\ F[j] # I[j] /\ U[j] # I[j]

\* C9: once print_info(days_before_lockdown) has run, the index it read the
\* series at is a day of the simulation, 0..daysTotal-1, and no read failed.
C9_LockdownIndexInRange ==
    pc \in {"L211", "L214", "done", "IndexError"} =>
        /\ pc # "IndexError"
        /\ 0 <= days_before_lockdown
        /\ days_before_lockdown <= daysTotal - 1

\* C10: from line 31 on population is florida_population, the trajectory starts
\* from it, and the observed series is the one of COUNTRY / PROVINCE.
C10_PopulationIsFlorida ==
    /\ "L22" \in done => population = florida_population
    /\ y_data_var # <<>> => y_data_var[1] = <<florida_population - E0, E0, 0, 0>>
    /\ "L157" \in done => XCDR_data.country = COUNTRY /\ XCDR_data.province = PROVINCE

\* a finished run for which get_population had returned another number
C10_Witness ==
    /\ pc = "done"
    /\ fetched # florida_population
    /\ S[1] + E[1] = florida_population
    /\ XCDR_data.country = COUNTRY

====
